---------------------------- MODULE Spec2Model ----------------------------
(***************************************************************************)
(* A model of the parking-occupancy analysis pipeline:                     *)
(*   process_data.py  load_data, get_price_changes                         *)
(*   moran_auto.py    the spatial-autocorrelation library                  *)
(*   gmm.py           locational_demand_analysis and GMM                   *)
(*                                                                         *)
(* Dates are proleptic Gregorian ordinals (datetime.date.toordinal), a     *)
(* timestamp is the pair <<ordinal, second of the day>>, compared as       *)
(* datetime compares.  Loads are counted in tenths, so the clip level 1.5  *)
(* is 15.  A missing value (NaN, NaT, None) is the empty tuple <<>> and a  *)
(* present value v is <<v>>.                                               *)
(***************************************************************************)
EXTENDS Integers, Sequences, FiniteSets, TLC

VARIABLES
    \* ---- load_data (process_data.py)
    pc,                 \* position in load_data
    args,               \* month_year_start, month_year_end, day_start, day_end
    date_start,         \* ordinal of the first date kept
    date_end,           \* ordinal of the last date kept
    block_info,         \* rows of block_info.csv: operating-hour rules
    locations,          \* keys of blockface_locs.p
    path_no,            \* number of the load directory being read
    n_files,            \* number of block files read so far
    fi,                 \* key of the last file listed in this directory
    key,                \* key of the block file being processed
    csv_rows,           \* rows of that file as pd.read_csv returned them
    block_data,         \* rows of the block file being processed
    rule_no,            \* index of the next row of curr_block_info
    avg_loads,          \* list of average-load rows
    gps_loc,            \* list of midpoints
    element_keys,       \* list of retained keys
    park_data,          \* dict key -> rows
    curated,            \* the table returned (concat, swaplevel, sort_index)
    idx_to_day_hour,    \* dict column index -> (weekday, hour)
    day_hour_to_idx,    \* dict (weekday, hour) -> column index
    \* ---- get_neighbor_weights (moran_auto.py)
    w_pc,               \* position in get_neighbor_weights
    w_gps,              \* the argument gps_loc: one coordinate pair per block-face
    w_k,                \* the argument k
    w_i,                \* the loop variable i
    weights,            \* the weight matrix
    \* ---- get_price_changes (process_data.py)
    p_pc,               \* position in get_price_changes
    area,               \* rows of block_info.csv of the named area
    p_keys,             \* keys of the area still to be processed
    p_key,              \* the loop variable key
    block,              \* rows of the key, without missing WeekdayRate1, sorted
    p_i,                \* the loop variable i (1-based)
    price_changes,      \* dict (new start, old start) -> list of (key, deltas)
    time_changes,       \* dict (new start, old start) -> list of (key, old, new)
    \* ---- locational_demand_analysis and GMM (gmm.py)
    g_pc,               \* position of the caller in locational_demand_analysis
    g_park,             \* the argument park_data: the rows of the table
    g_gps,              \* the argument gps_loc
    g_k,                \* the argument k
    times,              \* the list of (day, hour) slots
    tasks,              \* per slot: the state of its evaluation in the pool
    results,            \* the list pool.map hands back
    \* ---- get_area_weights (moran_auto.py)
    a_pc,               \* position in get_area_weights
    train_active_index, \* the argument: the list of active block keys
    area_info,          \* rows of paystation_info.csv
    a_weights,          \* the weight matrix
    a_area,             \* the local variable area, <<>> while it is unbound
    area_dict,          \* dict area -> list of positions
    key_dict,           \* dict key -> area
    count,              \* the loop counter (0-based)
    \* ---- moran_mixture and moran_expectation (moran_auto.py)
    m_pc,               \* position in the computation of the mixture statistic
    m_x,                \* the argument x: the loads
    m_labels,           \* the argument train_labels
    m_weights,          \* the matrix of get_mixture_weights
    m_I,                \* the value of moran_mixture
    m_expectation       \* the value of moran_expectation

loadVars == <<pc, args, date_start, date_end, block_info, locations, path_no,
              n_files, fi, key, csv_rows, block_data, rule_no, avg_loads, gps_loc, element_keys,
              park_data, curated,
              idx_to_day_hour, day_hour_to_idx>>

weightVars == <<w_pc, w_gps, w_k, w_i, weights>>

priceVars == <<p_pc, area, p_keys, p_key, block, p_i, price_changes, time_changes>>

gmmVars == <<g_pc, g_park, g_gps, g_k, times, tasks, results>>

areaVars == <<a_pc, train_active_index, area_info, a_weights, a_area, area_dict,
              key_dict, count>>

moranVars == <<m_pc, m_x, m_labels, m_weights, m_I, m_expectation>>

vars == <<loadVars, weightVars, priceVars, gmmVars, areaVars, moranVars>>

\* what an operation leaves alone: the state of the other operations
notLoad == <<weightVars, priceVars, gmmVars, areaVars, moranVars>>

notWeights == <<loadVars, priceVars, gmmVars, areaVars, moranVars>>

notPrice == <<loadVars, weightVars, gmmVars, areaVars, moranVars>>

notGMM == <<loadVars, weightVars, priceVars, areaVars, moranVars>>

notArea == <<loadVars, weightVars, priceVars, gmmVars, moranVars>>

notMoran == <<loadVars, weightVars, priceVars, gmmVars, areaVars>>

----------------------------------------------------------------------------
(* Missing values *)

NaN == <<>>

Val(v) == <<v>>

IsNull(x) == x = <<>>

----------------------------------------------------------------------------
(* Bounds of the model *)

MaxFiles == 2        \* block files read in one call

MaxPaths == 2        \* load directories in load_paths

MaxInfoRows == 2     \* rows of block_info.csv

MaxPoints == 3       \* block-faces in a weight matrix

MaxPriceRows == 3    \* rows of block_info.csv read by get_price_changes

MaxWorkers == 2      \* worker processes of the pool

MaxActive == 3       \* active block keys handed to get_area_weights

MaxSamples == 4      \* loads handed to moran_mixture

----------------------------------------------------------------------------
(* The calendar: datetime.date, calendar.monthrange, Timestamp.weekday *)

IsLeap(y) == (y % 4 = 0) /\ ((y % 100 # 0) \/ (y % 400 = 0))

DaysInMonth(y, m) ==
    IF m = 2 THEN (IF IsLeap(y) THEN 29 ELSE 28)
    ELSE IF m \in {4, 6, 9, 11} THEN 30 ELSE 31

RECURSIVE DaysBeforeMonth(_, _)
DaysBeforeMonth(y, m) ==
    IF m = 1 THEN 0 ELSE DaysBeforeMonth(y, m - 1) + DaysInMonth(y, m - 1)

DaysBeforeYear(y) ==
    (y - 1) * 365 + ((y - 1) \div 4) - ((y - 1) \div 100) + ((y - 1) \div 400)

\* datetime.date(y, m, d), as its ordinal
Ordinal(y, m, d) == DaysBeforeYear(y) + DaysBeforeMonth(y, m) + d

\* 0 = Monday ... 6 = Sunday
Weekday(ord) == (ord + 6) % 7

\* datetime.datetime.combine(date, time)
Combine(ord, secs) == <<ord, secs>>

DtLE(a, b) == (a[1] < b[1]) \/ (a[1] = b[1] /\ a[2] <= b[2])

DtLT(a, b) == (a[1] < b[1]) \/ (a[1] = b[1] /\ a[2] < b[2])

\* datetime + timedelta(seconds = s)
DtAdd(a, s) == <<a[1] + ((a[2] + s) \div 86400), (a[2] + s) % 86400>>

AtHour(h) == h * 3600

----------------------------------------------------------------------------
(* Generic helpers on lists *)

Min(a, b) == IF a <= b THEN a ELSE b

\* a list given by its elements, as a list value
AsList(f) == f \o <<>>

\* sorted(...) of a set of integers
SortedInts(S) ==
    AsList([p \in 1..Cardinality(S) |->
        CHOOSE x \in S : Cardinality({y \in S : y < x}) = p - 1])

\* DataFrame.sort_values(by = 'Datetime'): the rows in the order of their
\* timestamps, rows of one timestamp in their order of appearance
SortByDatetime(s) ==
    LET n == Len(s)
        rank == AsList([i \in 1..n |->
                    Cardinality({j \in 1..n :
                        \/ DtLT(s[j].Datetime, s[i].Datetime)
                        \/ (s[j].Datetime = s[i].Datetime /\ j < i)})])
    IN  AsList([p \in 1..n |-> s[CHOOSE i \in 1..n : rank[i] = p - 1]])

----------------------------------------------------------------------------
(* Inputs of load_data: the call's arguments and the files it reads *)

\* (month_year_start, month_year_end, day_start, day_end)
DateArgs ==
    { [month_year_start |-> <<6, 2023>>, month_year_end |-> <<7, 2023>>,
       day_start |-> NaN, day_end |-> NaN],
      [month_year_start |-> <<7, 2023>>, month_year_end |-> <<7, 2023>>,
       day_start |-> Val(1), day_end |-> Val(11)] }

\* USFederalHolidayCalendar().holidays(start = '2012-01-01', end = now), within
\* the dates of the files
Holidays == {Ordinal(2023, 7, 4)}

\* the keys of the block files
Keys == {1, 2}

\* blockface_locs.p: key -> coordinate record (lon1, lat1, lon2, lat2, id)
LocationRecord(k) == <<10 * k, 20 * k, 10 * k + 4, 20 * k + 2, k>>

LocationChoices == {Keys, Keys \ {1}}

\* The days a complete block file covers hour by hour: Sat 1, Mon 3, Wed 5,
\* Thu 6, Fri 7 and Tue 11 July 2023
FullDays ==
    <<Ordinal(2023, 7, 1), Ordinal(2023, 7, 3), Ordinal(2023, 7, 5),
      Ordinal(2023, 7, 6), Ordinal(2023, 7, 7), Ordinal(2023, 7, 11)>>

\* the paid hours of a day
Hours == <<8, 9, 10, 11, 12, 13, 14, 15, 16, 17, 18, 19>>

LoadLevels == <<0, 7, 15, 18>>

RawRow(ord, h, load) == [Datetime |-> <<ord, AtHour(h)>>, Load |-> load]

\* rows outside the hourly grid: a Friday before July, a Sunday, the holiday,
\* a day after the 11th, and a row whose load is missing
ExtraRows ==
    << RawRow(Ordinal(2023, 7, 12), 9, Val(18)),
       RawRow(Ordinal(2023, 7, 10), 8, NaN),
       RawRow(Ordinal(2023, 7, 4), 9, Val(7)),
       RawRow(Ordinal(2023, 7, 2), 9, Val(18)),
       RawRow(Ordinal(2023, 6, 30), 9, Val(7)) >>

\* row i of a block file whose paid hours start and end an hour later
LateRow(k, i) ==
    LET ord == FullDays[((i - 1) \div Len(Hours)) + 1]
        h   == Hours[((i - 1) % Len(Hours)) + 1] + 1
    IN  RawRow(ord, h, Val(LoadLevels[((ord + h + k) % 4) + 1]))

GridRow(k, i, zero) ==
    LET ord == FullDays[((i - 1) \div Len(Hours)) + 1]
        h   == Hours[((i - 1) % Len(Hours)) + 1]
    IN  RawRow(ord, h, IF zero THEN Val(0) ELSE Val(LoadLevels[((ord + h + k) % 4) + 1]))

Templates == {"full", "late", "zeros", "short", "none"}

\* pd.read_csv(fi, names = ['Datetime', 'Load']): the rows of file <k>.csv
ReadCsv(k, t) ==
    LET n == Len(FullDays) * Len(Hours)
        grid == [i \in 1..n |-> GridRow(k, i, t = "zeros")]
    IN  CASE t = "full"  -> grid \o ExtraRows
          [] t = "late"  -> AsList([i \in 1..n |-> LateRow(k, i)])
          [] t = "zeros" -> grid \o ExtraRows
          [] t = "short" -> SubSeq(grid, 1, n - 1) \o ExtraRows
          [] OTHER       -> SubSeq(ExtraRows, 2, 4)

\* block_info.csv rows (the columns load_data keeps)
Rule(k, s1, e1, s2, e2, s3, e3, from, to) ==
    [ElementKey |-> k,
     PeakHourStart1 |-> s1, PeakHourEnd1 |-> e1,
     PeakHourStart2 |-> s2, PeakHourEnd2 |-> e2,
     PeakHourStart3 |-> s3, PeakHourEnd3 |-> e3,
     EffectiveStartDate |-> from, EffectiveEndDate |-> to]

Midnight(ord) == Val(<<ord, 0>>)

T(h) == Val(AtHour(h))

\* one window from 5 July on; two windows from 1 to 6 July; three windows
OneWindow(k) ==
    Rule(k, T(8), T(10), NaN, NaN, NaN, NaN, Midnight(Ordinal(2023, 7, 5)), NaN)

TwoWindows(k) ==
    Rule(k, T(8), T(9), T(17), T(19), NaN, NaN,
         Midnight(Ordinal(2023, 7, 1)), Midnight(Ordinal(2023, 7, 6)))

ThreeWindows(k) ==
    Rule(k, T(8), T(9), T(12), T(13), T(17), T(18), Midnight(Ordinal(2023, 6, 1)), NaN)

InfoRows == <<TwoWindows(1), OneWindow(1), ThreeWindows(1), TwoWindows(2)>>

\* the rows of InfoRows at the positions idx, in their order
RECURSIVE Pick(_)
Pick(idx) ==
    IF idx = {} THEN <<>>
    ELSE LET i == CHOOSE j \in idx : \A l \in idx : j <= l
         IN  <<InfoRows[i]>> \o Pick(idx \ {i})

BlockInfoChoices ==
    {Pick(idx) : idx \in {x \in SUBSET (1..Len(InfoRows)) : Cardinality(x) <= MaxInfoRows}}

----------------------------------------------------------------------------
(* load_data: cleaning one block file (process_data.py lines 85-110) *)

\* Series.clip_upper(1.5) on one value, in tenths
ClipLevel == 15

\* a clip that is never applied
ClipUpperNone(load) == load

ClipUpper(load) == IF IsNull(load) THEN load ELSE Val(IF load[1] > ClipLevel THEN ClipLevel ELSE load[1])

\* the derived columns Date, Day, Hour of one row
Derive(r) ==
    [Datetime |-> r.Datetime, Load |-> r.Load,
     Date |-> r.Datetime[1],
     Day  |-> Weekday(r.Datetime[1]),
     Hour |-> r.Datetime[2] \div 3600]

\* a range filter without its upper bound
InDateRangeOpenEnd(r, dstart, dend) == r.Date >= dstart

InDateRange(r, dstart, dend) == r.Date >= dstart /\ r.Date <= dend

NotSunday(r) == r.Day # 6

NotHoliday(r) == r.Date \notin Holidays

Clean(raw, dstart, dend) ==
    LET sorted  == SortByDatetime(raw)
        present == SelectSeq(sorted, LAMBDA r : ~IsNull(r.Load))
        derived == AsList([i \in 1..Len(present) |-> Derive(present[i])])
        ranged  == SelectSeq(derived, LAMBDA r : InDateRange(r, dstart, dend))
        worked  == SelectSeq(ranged, NotSunday)
        plain   == SelectSeq(worked, NotHoliday)
    IN  AsList([i \in 1..Len(plain) |-> [plain[i] EXCEPT !.Load = ClipUpper(@)]])

\* date_start and date_end from the arguments (lines 63-69)
DateStart(a) ==
    LET day == IF IsNull(a.day_start) THEN 1 ELSE a.day_start[1]
    IN  Ordinal(a.month_year_start[2], a.month_year_start[1], day)

DateEnd(a) ==
    LET day == IF IsNull(a.day_end)
               THEN DaysInMonth(a.month_year_end[2], a.month_year_end[1])
               ELSE a.day_end[1]
    IN  Ordinal(a.month_year_end[2], a.month_year_end[1], day)

\* the midpoint appended to gps_loc (lines 126-133)
Midpoint(k) ==
    LET curr_block == LocationRecord(k)
        n    == Len(curr_block)
        lat1 == curr_block[2]
        lat2 == curr_block[n - 1]
        lon1 == curr_block[1]
        lon2 == curr_block[n - 2]
    IN  <<(lat1 + lat2) \div 2, (lon1 + lon2) \div 2>>

----------------------------------------------------------------------------
(* load_data: the operating-hour rules (lines 143-209) *)

\* mask1, mask2, mask3 on one row of block_data
PeakMask(r, from, to, start, end) ==
    /\ ~IsNull(from) /\ DtLE(from[1], r.Datetime)
    /\ (IsNull(to) \/ DtLE(r.Datetime, to[1]))
    /\ DtLE(Combine(r.Date, start[1]), r.Datetime)
    /\ DtLT(r.Datetime, Combine(r.Date, end[1]))
    /\ r.Day # 5

\* a rule that removes the rows of a window instead of blanking their load
BlankWindowDrops(bd, from, to, start, end) ==
    IF IsNull(start) THEN bd
    ELSE SelectSeq(bd, LAMBDA r : ~PeakMask(r, from, to, start, end))

\* block_data.loc[mask, 'Load'] = np.nan for one window
BlankWindow(bd, from, to, start, end) ==
    IF IsNull(start) THEN bd
    ELSE AsList([i \in 1..Len(bd) |->
            IF PeakMask(bd[i], from, to, start, end)
            THEN [bd[i] EXCEPT !.Load = NaN] ELSE bd[i]])

\* the rows a rule with all three windows defined is skipped (line 146)
SkipsRule(row) ==
    ~IsNull(row.PeakHourStart1) /\ ~IsNull(row.PeakHourStart2) /\ ~IsNull(row.PeakHourStart3)

\* row['EffectiveEndDate'] += timedelta(hours=23, minutes=59, seconds=59)
EndOfDay(to) == IF IsNull(to) THEN to ELSE Val(DtAdd(to[1], 86399))

\* one iteration of the loop over curr_block_info
ApplyRow(bd, row) ==
    IF SkipsRule(row) THEN bd
    ELSE LET to == EndOfDay(row.EffectiveEndDate)
             from == row.EffectiveStartDate
             b1 == BlankWindow(bd, from, to, row.PeakHourStart1, row.PeakHourEnd1)
             b2 == BlankWindow(b1, from, to, row.PeakHourStart2, row.PeakHourEnd2)
         IN  BlankWindow(b2, from, to, row.PeakHourStart3, row.PeakHourEnd3)

\* block_info.loc[block_info['ElementKey'] == key]
CurrBlockInfo(info, k) == SelectSeq(info, LAMBDA row : row.ElementKey = k)

----------------------------------------------------------------------------
(* load_data: the average load per (Day, Hour) group (line 212) *)

GroupCode(r) == r.Day * 24 + r.Hour

\* the (Day, Hour) groups of the rows, in the order groupby lists them
Groups(bd) ==
    LET codes == {GroupCode(bd[i]) : i \in 1..Len(bd)}
        all   == AsList([c \in 1..(7 * 24) |-> c - 1])
        kept  == SelectSeq(all, LAMBDA c : c \in codes)
    IN  AsList([i \in 1..Len(kept) |-> <<kept[i] \div 24, kept[i] % 24>>])

\* the sum of the loads of the rows idx of bd
RECURSIVE SumLoads(_, _)
SumLoads(bd, idx) ==
    IF idx = {} THEN 0
    ELSE LET i == CHOOSE j \in idx : TRUE
         IN  bd[i].Load[1] + SumLoads(bd, idx \ {i})

\* the mean of the loads present in one group, as <<sum, count>>: mean()
\* leaves the missing loads out and is NaN for a group with none
GroupMean(bd, g) ==
    LET idx == {i \in 1..Len(bd) :
                   bd[i].Day = g[1] /\ bd[i].Hour = g[2] /\ ~IsNull(bd[i].Load)}
    IN  IF idx = {} THEN NaN ELSE <<SumLoads(bd, idx), Cardinality(idx)>>

\* groupby(['Day', 'Hour'])['Load'].mean().values
AvgLoad(bd) ==
    LET gs == Groups(bd)
    IN  AsList([c \in 1..Len(gs) |-> GroupMean(bd, gs[c])])

\* the number of columns load_data requires of an average-load row (line 215)
SlotsPerWeek == 72

----------------------------------------------------------------------------
(* load_data: the state machine *)

InitLoad ==
    /\ pc = "start"
    /\ args = <<>>
    /\ csv_rows = <<>>
    /\ date_start = 0
    /\ date_end = 0
    /\ block_info = <<>>
    /\ locations = {}
    /\ path_no = 1
    /\ n_files = 0
    /\ fi = 0
    /\ key = 0
    /\ block_data = <<>>
    /\ rule_no = 0
    /\ avg_loads = <<>>
    /\ gps_loc = <<>>
    /\ element_keys = <<>>
    /\ park_data = <<>>
    /\ curated = {}
    /\ idx_to_day_hour = <<>>
    /\ day_hour_to_idx = <<>>

\* lines 37-79: the lookup files are read and the date range is fixed
Start(a, info, locs) ==
    /\ pc = "start"
    /\ args' = a
    /\ date_start' = DateStart(a)
    /\ date_end' = DateEnd(a)
    /\ block_info' = info
    /\ locations' = locs
    /\ pc' = "loop"
    /\ UNCHANGED <<path_no, n_files, fi, key, csv_rows, block_data, rule_no,
                   avg_loads, gps_loc, element_keys, park_data, curated,
                   idx_to_day_hour, day_hour_to_idx>>

\* lines 82-140: the next file of the directory is read and cleaned, and the
\* block is skipped or its midpoint appended
NextFile(k, t) ==
    /\ pc = "loop"
    /\ n_files < MaxFiles
    /\ k > fi
    /\ csv_rows' = ReadCsv(k, t)
    /\ LET bd == Clean(csv_rows', date_start, date_end)
           nonzero == SelectSeq(bd, LAMBDA r : r.Load # Val(0))
       IN  /\ block_data' = bd
           /\ IF Len(bd) = 0 \/ Len(nonzero) = 0 \/ k \notin locations
              THEN UNCHANGED <<pc, gps_loc, rule_no>>
              ELSE /\ gps_loc' = Append(gps_loc, Midpoint(k))
                   /\ rule_no' = 1
                   /\ pc' = "rules"
    /\ key' = k
    /\ fi' = k
    /\ n_files' = n_files + 1
    /\ UNCHANGED <<args, date_start, date_end, block_info, locations, path_no,
                   avg_loads, element_keys, park_data, curated,
                   idx_to_day_hour, day_hour_to_idx>>

\* line 81: the files of the next directory of load_paths
NextPath ==
    /\ pc = "loop"
    /\ path_no < MaxPaths
    /\ path_no' = path_no + 1
    /\ fi' = 0
    /\ UNCHANGED <<pc, args, date_start, date_end, block_info, locations, n_files,
                   key, csv_rows, block_data, rule_no, avg_loads, gps_loc,
                   element_keys, park_data, curated,
                   idx_to_day_hour, day_hour_to_idx>>

\* lines 143-209: one row of curr_block_info
ApplyRule ==
    /\ pc = "rules"
    /\ rule_no <= Len(CurrBlockInfo(block_info, key))
    /\ block_data' = ApplyRow(block_data, CurrBlockInfo(block_info, key)[rule_no])
    /\ rule_no' = rule_no + 1
    /\ UNCHANGED <<pc, args, date_start, date_end, block_info, locations, path_no,
                   n_files, fi, key, csv_rows, avg_loads, gps_loc, element_keys,
                   park_data, curated,
                   idx_to_day_hour, day_hour_to_idx>>

\* a block dropped for its coverage whose midpoint stays in gps_loc
AggregateNoPop ==
    /\ pc = "rules"
    /\ rule_no > Len(CurrBlockInfo(block_info, key))
    /\ LET avg_load == AvgLoad(block_data)
       IN  IF Len(avg_load) # SlotsPerWeek
           THEN UNCHANGED <<gps_loc, avg_loads, element_keys, park_data>>
           ELSE /\ avg_loads' = Append(avg_loads, avg_load)
                /\ element_keys' = Append(element_keys, key)
                /\ park_data' = [k \in (DOMAIN park_data) \cup {key} |->
                                    IF k = key THEN block_data ELSE park_data[k]]
                /\ UNCHANGED gps_loc
    /\ pc' = "loop"
    /\ UNCHANGED <<args, date_start, date_end, block_info, locations, path_no,
                   n_files, fi, key, csv_rows, block_data, rule_no, curated,
                   idx_to_day_hour, day_hour_to_idx>>

\* lines 211-221: the block's averages are kept, or the block is dropped
Aggregate ==
    /\ pc = "rules"
    /\ rule_no > Len(CurrBlockInfo(block_info, key))
    /\ LET avg_load == AvgLoad(block_data)
       IN  IF Len(avg_load) # SlotsPerWeek
           THEN /\ gps_loc' = SubSeq(gps_loc, 1, Len(gps_loc) - 1)
                /\ UNCHANGED <<avg_loads, element_keys, park_data>>
           ELSE /\ avg_loads' = Append(avg_loads, avg_load)
                /\ element_keys' = Append(element_keys, key)
                /\ park_data' = [k \in (DOMAIN park_data) \cup {key} |->
                                    IF k = key THEN block_data ELSE park_data[k]]
                /\ UNCHANGED gps_loc
    /\ pc' = "loop"
    /\ UNCHANGED <<args, date_start, date_end, block_info, locations, path_no,
                   n_files, fi, key, csv_rows, block_data, rule_no, curated,
                   idx_to_day_hour, day_hour_to_idx>>

\* pd.concat(park_data.values(), keys = park_data.keys()) with the index
\* (Datetime, ID): the rows of every block, each with its block's key
Concat(pd) ==
    UNION { { [ID |-> k, Datetime |-> pd[k][i].Datetime, Load |-> pd[k][i].Load,
               Date |-> pd[k][i].Date, Day |-> pd[k][i].Day, Hour |-> pd[k][i].Hour] :
              i \in 1..Len(pd[k]) } : k \in DOMAIN pd }

\* lines 227-236: the maps between column indices and (weekday, hour) pairs,
\* from the sorted weekdays and hours of the rows of one block
IdxToDayHour(bd) ==
    LET days  == SortedInts({bd[i].Day : i \in 1..Len(bd)})
        hours == SortedInts({bd[i].Hour : i \in 1..Len(bd)})
    IN  [c \in 0..(Len(days) * Len(hours) - 1) |->
            <<days[(c \div Len(hours)) + 1], hours[(c % Len(hours)) + 1]>>]

\* line 237: {v: k for k, v in idx_to_day_hour.items()}
Inverse(d) ==
    [v \in {d[c] : c \in DOMAIN d} |-> CHOOSE c \in DOMAIN d : d[c] = v]

\* lines 223-250: np.vstack fails on an empty list, otherwise the maps are
\* built from the block that comes first in the dict park_data, whose order
\* is arbitrary, and the table is built
Finish ==
    /\ pc = "loop"
    /\ IF Len(avg_loads) = 0
       THEN /\ pc' = "error"
            /\ UNCHANGED <<curated, idx_to_day_hour, day_hour_to_idx>>
       ELSE /\ pc' = "done"
            /\ \E first \in DOMAIN park_data :
                  idx_to_day_hour' = IdxToDayHour(park_data[first])
            /\ day_hour_to_idx' = Inverse(idx_to_day_hour')
            /\ curated' = Concat(park_data)
    /\ UNCHANGED <<args, date_start, date_end, block_info, locations, path_no,
                   n_files, fi, key, csv_rows, block_data, rule_no, avg_loads,
                   gps_loc, element_keys, park_data>>

----------------------------------------------------------------------------
(* moran_auto.get_neighbor_weights (lines 75-92) *)

\* the coordinate pairs the block-faces are drawn from
Coords == {<<0, 0>>, <<0, 1>>, <<2, 0>>, <<3, 3>>}

\* np.linalg.norm(gps_loc[i] - gps_loc[j]), squared: the order of the squares
\* is the order of the norms
Dist2(gps, i, j) ==
    (gps[i][1] - gps[j][1]) * (gps[i][1] - gps[j][1])
        + (gps[i][2] - gps[j][2]) * (gps[i][2] - gps[j][2])

\* sorted([(j, norm) for j in xrange(N)], key = lambda x: x[1]): the indices j
\* by distance from i, equal distances in the order of j (sorted is stable)
ByDistance(gps, i) ==
    LET N == Len(gps)
        rank == AsList([j \in 1..N |->
                    Cardinality({l \in 1..N :
                        \/ Dist2(gps, i, l) < Dist2(gps, i, j)
                        \/ (Dist2(gps, i, l) = Dist2(gps, i, j) /\ l < j)})])
    IN  AsList([p \in 1..N |-> CHOOSE j \in 1..N : rank[j] = p - 1])

\* the slice [1:k+1] of the sorted list: its elements 2..k+1
NeighborsOf(gps, k, i) ==
    LET sorted == ByDistance(gps, i)
    IN  {sorted[p] : p \in 2..Min(k + 1, Len(sorted))}

InitWeights ==
    /\ w_pc = "start"
    /\ w_gps = <<>>
    /\ w_k = 0
    /\ w_i = 0
    /\ weights = <<>>

\* line 86: weights = np.zeros((N, N))
WeightsStart(gps, k) ==
    /\ w_pc = "start"
    /\ w_gps' = gps
    /\ w_k' = k
    /\ w_i' = 1
    /\ weights' = [i \in 1..Len(gps) |-> [j \in 1..Len(gps) |-> 0]]
    /\ w_pc' = "rows"

\* lines 88-90: one row of the matrix
WeightsRow ==
    /\ w_pc = "rows"
    /\ w_i <= Len(w_gps)
    /\ weights' = [weights EXCEPT ![w_i] =
                      [j \in 1..Len(w_gps) |->
                          IF j \in NeighborsOf(w_gps, w_k, w_i) THEN 1 ELSE @[j]]]
    /\ w_i' = w_i + 1
    /\ UNCHANGED <<w_pc, w_gps, w_k>>

\* line 92
WeightsReturn ==
    /\ w_pc = "rows"
    /\ w_i > Len(w_gps)
    /\ w_pc' = "done"
    /\ UNCHANGED <<w_gps, w_k, w_i, weights>>

----------------------------------------------------------------------------
(* process_data.get_price_changes (lines 253-295) *)

\* a row of block_info.csv with the columns get_price_changes reads; an
\* effective date is the ordinal of its day (the column holds ISO date
\* strings, whose order is the order of the days)
PriceRow(k, a, r, t, from) ==
    [ElementKey |-> k, PaidParkingArea |-> a,
     WeekdayRate1 |-> r[1], WeekdayRate2 |-> r[2], WeekdayRate3 |-> r[3],
     SaturdayRate1 |-> r[4], SaturdayRate2 |-> r[5], SaturdayRate3 |-> r[6],
     StartTimeWeekday |-> t[1], EndTimeWeekday |-> t[2],
     StartTimeSaturday |-> t[3], EndTimeSaturday |-> t[4],
     EffectiveStartDate |-> from, EffectiveEndDate |-> NaN]

\* the rows a table is made of, in the order of the file
PriceRows ==
    LET full1  == <<Val(10), Val(20), Val(10), Val(10), Val(10), Val(10)>>
        full2  == <<Val(20), Val(20), Val(10), Val(10), Val(10), Val(10)>>
        sparse == <<Val(10), NaN, NaN, Val(10), NaN, NaN>>
        none   == <<NaN, NaN, NaN, NaN, NaN, NaN>>
        day    == <<Val(AtHour(8)), Val(AtHour(18)), Val(AtHour(8)), Val(AtHour(18))>>
        late   == <<Val(AtHour(8)), Val(AtHour(20)), Val(AtHour(8)), Val(AtHour(18))>>
    IN  << PriceRow(1, "A", full2, day, Ordinal(2015, 2, 1)),
           PriceRow(1, "A", full1, day, Ordinal(2015, 1, 1)),
           PriceRow(1, "A", full2, late, Ordinal(2015, 3, 1)),
           PriceRow(1, "A", sparse, day, Ordinal(2015, 3, 1)),
           PriceRow(1, "A", sparse, day, Ordinal(2015, 2, 1)),
           PriceRow(1, "A", none, day, Ordinal(2015, 2, 1)),
           PriceRow(2, "A", full1, late, Ordinal(2015, 1, 1)),
           PriceRow(2, "B", full2, day, Ordinal(2015, 2, 1)) >>

\* the rows of s at the positions idx, in their order
RECURSIVE PickRows(_, _)
PickRows(s, idx) ==
    IF idx = {} THEN <<>>
    ELSE LET i == CHOOSE j \in idx : \A l \in idx : j <= l
         IN  <<s[i]>> \o PickRows(s, idx \ {i})

PriceTables ==
    {PickRows(PriceRows, idx) :
        idx \in {x \in SUBSET (1..Len(PriceRows)) : Cardinality(x) <= MaxPriceRows}}

\* Series.unique(): the values in the order of their first appearance
RECURSIVE Unique(_)
Unique(s) ==
    IF Len(s) = 0 THEN <<>>
    ELSE LET front == Unique(SubSeq(s, 1, Len(s) - 1))
             last  == s[Len(s)]
         IN  IF \E i \in 1..Len(front) : front[i] = last THEN front ELSE Append(front, last)

Prices(row) ==
    <<row.WeekdayRate1, row.WeekdayRate2, row.WeekdayRate3,
      row.SaturdayRate1, row.SaturdayRate2, row.SaturdayRate3>>

Times(row) ==
    <<row.StartTimeWeekday, row.EndTimeWeekday, row.StartTimeSaturday, row.EndTimeSaturday>>

\* np.array_equal(a, b): every pair of elements compares equal, and a missing
\* value compares equal to nothing, itself included
ArrayEqual(a, b) ==
    \A n \in 1..Len(a) : ~IsNull(a[n]) /\ ~IsNull(b[n]) /\ a[n] = b[n]

\* prices[i] - prices[i+1], element by element; missing where one is missing
Minus(a, b) ==
    [n \in 1..Len(a) |-> IF IsNull(a[n]) \/ IsNull(b[n]) THEN NaN ELSE Val(a[n][1] - b[n][1])]

\* the dict key with the dates the other way round
ChangeKeyOldFirst(prev, next) == <<prev.EffectiveStartDate, next.EffectiveStartDate>>

\* (dates[i+1, 0], dates[i, 0])
ChangeKey(prev, next) == <<next.EffectiveStartDate, prev.EffectiveStartDate>>

\* defaultdict(list): d[k].append(v)
AppendAt(d, k, v) ==
    [x \in (DOMAIN d) \cup {k} |->
        IF x = k THEN (IF k \in DOMAIN d THEN Append(d[k], v) ELSE <<v>>) ELSE d[x]]

\* the orders sort_values(by = 'EffectiveStartDate') may give the rows: sorted
\* by date, rows of one date in any order (the default sort is not stable)
SortedOrders(rows) ==
    LET n == Len(rows)
        perms == {f \in [1..n -> 1..n] : \A i, j \in 1..n : i # j => f[i] # f[j]}
    IN  { AsList([i \in 1..n |-> rows[f[i]]]) :
            f \in {g \in perms : \A i \in 1..(n - 1) :
                      rows[g[i]].EffectiveStartDate <= rows[g[i + 1]].EffectiveStartDate} }

InitPrice ==
    /\ p_pc = "start"
    /\ area = <<>>
    /\ p_keys = <<>>
    /\ p_key = 0
    /\ block = <<>>
    /\ p_i = 0
    /\ price_changes = <<>>
    /\ time_changes = <<>>

\* lines 272-276
PriceStart(name, table) ==
    /\ p_pc = "start"
    /\ area' = SelectSeq(table, LAMBDA row : row.PaidParkingArea = name)
    /\ p_keys' = Unique(AsList([i \in 1..Len(area') |-> area'[i].ElementKey]))
    /\ p_pc' = "keys"
    /\ UNCHANGED <<p_key, block, p_i, price_changes, time_changes>>

\* lines 278-287: the rows of the next key
PriceNextKey ==
    /\ p_pc = "keys"
    /\ Len(p_keys) > 0
    /\ p_key' = Head(p_keys)
    /\ p_keys' = Tail(p_keys)
    /\ LET ofkey == SelectSeq(area, LAMBDA row : row.ElementKey = Head(p_keys))
           rated == SelectSeq(ofkey, LAMBDA row : ~IsNull(row.WeekdayRate1))
       IN  block' \in SortedOrders(rated)
    /\ p_i' = 1
    /\ p_pc' = "pairs"
    /\ UNCHANGED <<area, price_changes, time_changes>>

\* lines 289-293: one pair of consecutive rows
PricePair ==
    /\ p_pc = "pairs"
    /\ p_i <= Len(block) - 1
    /\ LET prev == block[p_i]
           next == block[p_i + 1]
       IN  /\ price_changes' =
                IF ~ArrayEqual(Prices(prev), Prices(next))
                THEN AppendAt(price_changes, ChangeKey(prev, next),
                              <<p_key, Minus(Prices(prev), Prices(next))>>)
                ELSE price_changes
           /\ time_changes' =
                IF ~ArrayEqual(Times(prev), Times(next))
                THEN AppendAt(time_changes, ChangeKey(prev, next),
                              <<p_key, Times(prev), Times(next)>>)
                ELSE time_changes
    /\ p_i' = p_i + 1
    /\ UNCHANGED <<p_pc, area, p_keys, p_key, block>>

\* the loop over the pairs of a key ends
PriceKeyDone ==
    /\ p_pc = "pairs"
    /\ p_i > Len(block) - 1
    /\ p_pc' = "keys"
    /\ UNCHANGED <<area, p_keys, p_key, block, p_i, price_changes, time_changes>>

\* line 295
PriceReturn ==
    /\ p_pc = "keys"
    /\ Len(p_keys) = 0
    /\ p_pc' = "done"
    /\ UNCHANGED <<area, p_keys, p_key, block, p_i, price_changes, time_changes>>

----------------------------------------------------------------------------
(* The names moran_auto defines, and gmm.GMM (lines 47-214) *)

\* the functions of moran_auto.py: name -> <<required arguments, accepted arguments>>
MoranAuto ==
    [get_area_weights     |-> <<2, 3>>,
     moran_area           |-> <<3, 3>>,
     get_neighbor_weights |-> <<3, 3>>,
     moran_neighbor       |-> <<4, 4>>,
     get_mixture_weights  |-> <<2, 2>>,
     moran_mixture        |-> <<3, 3>>,
     moran_expectation    |-> <<1, 1>>,
     moran_variance       |-> <<3, 3>>,
     z_score              |-> <<3, 3>>,
     p_value              |-> <<1, 1>>]

\* the calls into moran_auto GMM makes for one training date, in order, each
\* with the number of arguments it passes (lines 133-158)
MoranCalls ==
    << <<"get_mixture_weights", 2>>, <<"moran_mixture", 3>>, <<"moran_expectation", 1>>,
       <<"moran_variance", 3>>, <<"z_score", 3>>, <<"p_value", 1>>,
       <<"get_area_weights", 2>>, <<"moran_area", 3>>, <<"moran_expectation", 1>>,
       <<"moran_variance", 3>>, <<"z_score", 3>>, <<"p_value", 1>>,
       <<"get_adjacent_weights", 2>>, <<"moran_adjacent", 4>>, <<"moran_expectation", 1>>,
       <<"moran_variance", 3>>, <<"z_score", 3>>, <<"p_value", 1>> >>

\* moran_auto.<name>(...) with n arguments: the attribute lookup fails for a
\* name the module does not define, the call for a wrong number of arguments
CallError(call) ==
    IF call[1] \notin DOMAIN MoranAuto THEN "AttributeError"
    ELSE IF call[2] < MoranAuto[call[1]][1] \/ call[2] > MoranAuto[call[1]][2]
         THEN "TypeError"
         ELSE "none"

\* the error of the first call of the list that fails
RECURSIVE CallsError(_)
CallsError(calls) ==
    IF Len(calls) = 0 THEN "none"
    ELSE IF CallError(Head(calls)) # "none" THEN CallError(Head(calls))
         ELSE CallsError(Tail(calls))

\* GaussianMixture(n_components = 4)
n_components == 4

Components == 0..(n_components - 1)

\* the distinct timestamps of a set of rows, ascending (the table is sorted by
\* its index)
SortedTimes(S) ==
    AsList([p \in 1..Cardinality(S) |->
        CHOOSE x \in S : Cardinality({y \in S : DtLT(y, x)}) = p - 1])

\* itertools.product(days, hours)
Product(days, hours) ==
    AsList([p \in 1..(Len(days) * Len(hours)) |->
        <<days[((p - 1) \div Len(hours)) + 1], hours[((p - 1) % Len(hours)) + 1]>>])

\* line 90
DataDf(park, day, hour) == {r \in park : r.Day = day /\ r.Hour = hour}

\* lines 100-109: the keys of the rows of a timestamp whose load is present
ActiveIndex(data_df, time) ==
    {r.ID : r \in {x \in data_df : x.Datetime = time /\ ~IsNull(x.Load)}}

\* lines 171-180: the active keys of the test date that were trained on
TestIndex(data_df, train_time, test_time) ==
    ActiveIndex(data_df, test_time) \cap ActiveIndex(data_df, train_time)

\* line 91: the sorted keys of the rows of the slot
BlockKeys(data_df) == SortedInts({r.ID : r \in data_df})

\* list.index(v), 1-based
IndexOf(list, v) == CHOOSE p \in 1..Len(list) : list[p] = v /\ \A q \in 1..(p - 1) : list[q] # v

\* lines 110 and 181: the position of every active key in block_keys
Mask(data_df, time) ==
    [b \in ActiveIndex(data_df, time) |-> IndexOf(BlockKeys(data_df), b)]

\* lines 115 and 185: the coordinates placed beside the load of every active
\* key, gps_loc[mask]
FeatureCoords(data_df, gps, time) ==
    [b \in ActiveIndex(data_df, time) |-> gps[Mask(data_df, time)[b]]]

\* lines 107-160: what stops the training on a date before the predictions,
\* or "none": the scaler and the mixture refuse too few samples, then the
\* calls into moran_auto are made
TrainError(data_df, train_time) ==
    LET N == Cardinality(ActiveIndex(data_df, train_time))
    IN  IF N = 0 THEN "ValueError"
        ELSE IF N < n_components THEN "ValueError"
        ELSE CallsError(MoranCalls)

\* lines 100-209 for one training date: the error that ends it, or "none"
DateError(data_df, dates, n) ==
    IF TrainError(data_df, dates[n]) # "none" THEN TrainError(data_df, dates[n])
    ELSE IF \E m \in 1..Len(dates) : m # n /\ TestIndex(data_df, dates[n], dates[m]) = {}
         THEN "ZeroDivisionError"
         ELSE "none"

\* fractions <<numerator, denominator>>
FracAdd(a, b) == <<a[1] * b[2] + b[1] * a[2], a[2] * b[2]>>

RECURSIVE FracSum(_)
FracSum(s) == IF Len(s) = 0 THEN <<0, 1>> ELSE FracAdd(Head(s), FracSum(Tail(s)))

\* np.array(...).mean(): missing for an empty list or a list with a missing value
Mean(s) ==
    IF Len(s) = 0 \/ \E n \in 1..Len(s) : IsNull(s[n]) THEN NaN
    ELSE LET sum == FracSum(AsList([n \in 1..Len(s) |-> s[n][1]]))
         IN  Val(<<sum[1], sum[2] * Len(s)>>)

\* lines 192-206: correct/float(correct + incorrect) of the model fitted on
\* date n for the test date m; fit[d][b] is the component the model gives
\* the point of block b on date d
Accuracy(data_df, dates, fit, n, m) ==
    LET test_active_index == TestIndex(data_df, dates[n], dates[m])
        correct   == Cardinality({b \in test_active_index : fit[m][b] = fit[n][b]})
        incorrect == Cardinality({b \in test_active_index : fit[m][b] # fit[n][b]})
    IN  Val(<<correct, correct + incorrect>>)

\* lines 162-209: the mean accuracy over the test dates of one training date
AverageAccuracy(data_df, dates, fit, n) ==
    LET others == SelectSeq(AsList([m \in 1..Len(dates) |-> m]), LAMBDA m : m # n)
    IN  Mean(AsList([j \in 1..Len(others) |-> Accuracy(data_df, dates, fit, n, others[j])]))

\* line 212: round(100.0 - mean * 100, 2), in hundredths
TimeAvgError(average_accuracies) ==
    LET mean == Mean(average_accuracies)
    IN  IF IsNull(mean) THEN NaN
        ELSE LET p == mean[1][1]
                 q == mean[1][2]
             IN  Val((2 * 10000 * (q - p) + q) \div (2 * q))

\* one list of Moran tuples holds, per training date, the scheme, the sample
\* count and the neighbor count the statistic was computed with
MoranTuple(scheme, data_df, train_time, k) ==
    [scheme |-> scheme, N |-> Cardinality(ActiveIndex(data_df, train_time)), k |-> k]

Returned(value) == [ok |-> TRUE, value |-> value]

Raised(error) == [ok |-> FALSE, error |-> error]

\* GMM(park_data, gps_loc, times, k, iteration): the outcomes the evaluation of
\* a slot can have; the fitted mixtures are free in the labels they give
GMM(park, gps, tms, k, iteration) ==
    LET day  == tms[iteration][1]
        hour == tms[iteration][2]
        data_df == DataDf(park, day, hour)
        dates == SortedTimes({r.Datetime : r \in data_df})
        D == 1..Len(dates)
        failing == {n \in D : DateError(data_df, dates, n) # "none"}
    IN  IF failing # {}
        THEN {Raised(DateError(data_df, dates, CHOOSE n \in failing : \A l \in failing : n <= l))}
        ELSE { Returned(<<day, hour,
                  TimeAvgError(AsList([n \in D |-> AverageAccuracy(data_df, dates, fits[n], n)])),
                  AsList([n \in D |-> MoranTuple("mixture", data_df, dates[n], 0)]),
                  AsList([n \in D |-> MoranTuple("area", data_df, dates[n], 0)]),
                  AsList([n \in D |-> MoranTuple("adjacent", data_df, dates[n], k)]),
                  AsList([n \in D |-> fits[n]])>>) :
               fits \in [D -> [D -> [{r.ID : r \in data_df} -> Components]]] }

----------------------------------------------------------------------------
(* gmm.locational_demand_analysis (lines 12-44) *)

ParkRow(k, ord, h, load) ==
    [ID |-> k, Datetime |-> <<ord, AtHour(h)>>, Load |-> load,
     Date |-> ord, Day |-> Weekday(ord), Hour |-> h]

\* the rows of the keys on the days at the hours, each with a load
ParkGrid(keys, days, hours) ==
    {ParkRow(k, d, h, Val((3 * k + d + h) % (ClipLevel + 1))) :
        k \in keys, d \in days, h \in hours}

\* the tables the analysis is run on: no rows; two Mondays of four keys at two
\* hours; a Monday at two hours and a Tuesday at one; three keys only; four
\* keys, one of them without load on the first Monday
ParkTables ==
    LET mon1 == Ordinal(2023, 7, 3)
        mon2 == Ordinal(2023, 7, 10)
        tue  == Ordinal(2023, 7, 11)
    IN  { {},
          ParkGrid(1..4, {mon1, mon2}, {8, 9}),
          ParkGrid(1..4, {mon1}, {8, 9}) \cup ParkGrid(1..4, {tue}, {9}),
          ParkGrid(1..3, {mon1, mon2}, {8}),
          ParkGrid(1..3, {mon1, mon2}, {8}) \cup ParkGrid({4}, {mon2}, {8})
              \cup {ParkRow(4, mon1, 8, NaN)} }

GpsChoices == { <<<<0, 0>>, <<0, 1>>, <<2, 0>>, <<3, 3>>>>,
                <<<<0, 0>>, <<0, 0>>, <<2, 0>>, <<3, 3>>>> }

InitGMM ==
    /\ g_pc = "start"
    /\ g_park = {}
    /\ g_gps = <<>>
    /\ g_k = 0
    /\ times = <<>>
    /\ tasks = <<>>
    /\ results = <<>>

\* lines 31-39: the slots are listed and handed to the pool, the caller waits
\* in pool.map
Analyse(park, gps, k) ==
    /\ g_pc = "start"
    /\ g_park' = park
    /\ g_gps' = gps
    /\ g_k' = k
    /\ times' = Product(SortedInts({r.Day : r \in park}), SortedInts({r.Hour : r \in park}))
    /\ tasks' = AsList([i \in 1..Len(times') |-> [status |-> "queued"]])
    /\ g_pc' = "map"
    /\ UNCHANGED results

\* a free worker takes the next slot from the task queue
WorkerTake(i) ==
    /\ g_pc = "map"
    /\ i \in 1..Len(tasks)
    /\ tasks[i].status = "queued"
    /\ \A j \in 1..(i - 1) : tasks[j].status # "queued"
    /\ Cardinality({j \in 1..Len(tasks) : tasks[j].status = "running"}) < MaxWorkers
    /\ tasks' = [tasks EXCEPT ![i] = [status |-> "running"]]
    /\ UNCHANGED <<g_pc, g_park, g_gps, g_k, times, results>>

\* a worker ends the evaluation of its slot: GMM returned or raised
WorkerFinish(i) ==
    /\ g_pc = "map"
    /\ i \in 1..Len(tasks)
    /\ tasks[i].status = "running"
    /\ \E out \in GMM(g_park, g_gps, times, g_k, i) :
          tasks' = [tasks EXCEPT ![i] =
                       IF out.ok THEN [status |-> "done", value |-> out.value]
                       ELSE [status |-> "failed", error |-> out.error]]
    /\ UNCHANGED <<g_pc, g_park, g_gps, g_k, times, results>>

\* line 39: pool.map hands back the values of the slots in the order of the
\* slots once every slot is evaluated
MapReturn ==
    /\ g_pc = "map"
    /\ \A i \in 1..Len(tasks) : tasks[i].status = "done"
    /\ results' = AsList([i \in 1..Len(tasks) |-> tasks[i].value])
    /\ g_pc' = "close"
    /\ UNCHANGED <<g_park, g_gps, g_k, times, tasks>>

\* line 39: pool.map raises the error of a slot as soon as one has failed; the
\* error leaves locational_demand_analysis
MapRaise ==
    /\ g_pc = "map"
    /\ \E i \in 1..Len(tasks) : tasks[i].status = "failed"
    /\ g_pc' = "raised"
    /\ UNCHANGED <<g_park, g_gps, g_k, times, tasks, results>>

\* lines 41-44
CloseJoinReturn ==
    /\ g_pc = "close"
    /\ g_pc' = "returned"
    /\ UNCHANGED <<g_park, g_gps, g_k, times, tasks, results>>

----------------------------------------------------------------------------
(* moran_auto.get_area_weights (lines 8-49) *)

\* the rows of paystation_info.csv: <<ELMNTKEY, PAIDAREA, SUBAREA>>, every
\* value present
AreaInfo ==
    << <<1, "Ballard", "Core">>,
       <<2, "Ballard", "Core">>,
       <<3, "Ballard", "Edge">>,
       <<4, "Fremont", "Core">>,
       <<1, "Ballard", "Core">> >>

\* the keys a list of active keys is made of; 9 is not in the table
ActiveKeys == {1, 2, 3, 4, 9}

\* the lists of distinct active keys
ActiveLists ==
    UNION { {f \in [1..n -> ActiveKeys] : \A i, j \in 1..n : i # j => f[i] # f[j]} :
              n \in 1..MaxActive }

\* line 23
AllKeys(info) == {info[n][1] : n \in 1..Len(info)}

\* lines 32-34: the first paid area and the first sub-area listed for the key
AreaOf(info, k) ==
    LET rows == SelectSeq(info, LAMBDA row : row[1] = k)
    IN  <<rows[1][2], rows[1][3]>>

InitArea ==
    /\ a_pc = "start"
    /\ train_active_index = <<>>
    /\ area_info = <<>>
    /\ a_weights = <<>>
    /\ a_area = <<>>
    /\ area_dict = <<>>
    /\ key_dict = <<>>
    /\ count = 0

\* lines 18-28
AreaStart(index, info) ==
    /\ a_pc = "start"
    /\ train_active_index' = index
    /\ area_info' = info
    /\ a_weights' = [i \in 1..Len(index) |-> [j \in 1..Len(index) |-> 0]]
    /\ a_pc' = "keys"
    /\ UNCHANGED <<a_area, area_dict, key_dict, count>>

\* lines 29-41: one key of the list; a key outside the table leaves the
\* variable area as it is, and reading it while it is unbound raises
AreaKey ==
    /\ a_pc = "keys"
    /\ count < Len(train_active_index)
    /\ LET k == train_active_index[count + 1]
           found == IF k \in AllKeys(area_info) THEN AreaOf(area_info, k) ELSE a_area
       IN  IF found = <<>>
           THEN /\ a_pc' = "UnboundLocalError"
                /\ UNCHANGED <<a_area, area_dict, key_dict, count>>
           ELSE /\ a_area' = found
                /\ area_dict' = AppendAt(area_dict, found, count)
                /\ key_dict' = [x \in (DOMAIN key_dict) \cup {k} |->
                                   IF x = k THEN found ELSE key_dict[x]]
                /\ count' = count + 1
                /\ UNCHANGED a_pc
    /\ UNCHANGED <<train_active_index, area_info, a_weights>>

\* the return without the reset of the diagonal
AreaReturnKeepDiagonal ==
    /\ a_pc = "keys"
    /\ count = Len(train_active_index)
    /\ LET N == Len(train_active_index)
           members(i) == {area_dict[key_dict[train_active_index[i]]][n] + 1 :
                             n \in 1..Len(area_dict[key_dict[train_active_index[i]]])}
       IN  a_weights' = [i \in 1..N |-> [j \in 1..N |->
                            IF j \in members(i) THEN 1 ELSE a_weights[i][j]]]
    /\ a_pc' = "done"
    /\ UNCHANGED <<train_active_index, area_info, a_area, area_dict, key_dict, count>>

\* lines 43-49: every row gets a 1 at the positions of its area, the diagonal
\* is set to 0, the matrix is returned
AreaReturn ==
    /\ a_pc = "keys"
    /\ count = Len(train_active_index)
    /\ LET N == Len(train_active_index)
           members(i) == {area_dict[key_dict[train_active_index[i]]][n] + 1 :
                             n \in 1..Len(area_dict[key_dict[train_active_index[i]]])}
       IN  a_weights' = [i \in 1..N |-> [j \in 1..N |->
                            IF i = j THEN 0
                            ELSE IF j \in members(i) THEN 1 ELSE a_weights[i][j]]]
    /\ a_pc' = "done"
    /\ UNCHANGED <<train_active_index, area_info, a_area, area_dict, key_dict, count>>

----------------------------------------------------------------------------
(* moran_auto.get_mixture_weights, moran_mixture, moran_expectation
   (lines 120-179).  The statistics are kept as exact fractions
   <<numerator, denominator>>; a division by zero gives NaN. *)

\* the loads a sample can have
SampleLoads == 1..4

\* lines 133-143: a 1 where two points have the same label, 0 on the diagonal
get_mixture_weights(train_labels, N) ==
    [i \in 1..N |-> [j \in 1..N |->
        IF i = j THEN 0 ELSE IF train_labels[j] = train_labels[i] THEN 1 ELSE 0]]

RECURSIVE SumOver(_, _)
SumOver(f, S) ==
    IF S = {} THEN 0
    ELSE LET e == CHOOSE e \in S : TRUE IN f[e] + SumOver(f, S \ {e})

\* N * (x[i] - x.mean()): the deviations, scaled to integers
Deviations(xs, N) ==
    LET total == SumOver(xs, 1..N)
    IN  [i \in 1..N |-> N * xs[i] - total]

\* the statistic without the factor N/W
MoranTopOverBottom(xs, w, N) ==
    LET z == Deviations(xs, N)
        top == SumOver([p \in (1..N) \X (1..N) |-> w[p[1]][p[2]] * z[p[1]] * z[p[2]]],
                       (1..N) \X (1..N))
        bottom == SumOver([i \in 1..N |-> z[i] * z[i]], 1..N)
    IN  IF bottom = 0 THEN NaN ELSE Val(<<top, bottom>>)

\* lines 158-164: I = (N/W) * top/bottom with W = weights.sum() and
\* z = x - x.mean()
MoranI(xs, w, N) ==
    LET z == Deviations(xs, N)
        W == SumOver([p \in (1..N) \X (1..N) |-> w[p[1]][p[2]]], (1..N) \X (1..N))
        top == SumOver([p \in (1..N) \X (1..N) |-> w[p[1]][p[2]] * z[p[1]] * z[p[2]]],
                       (1..N) \X (1..N))
        bottom == SumOver([i \in 1..N |-> z[i] * z[i]], 1..N)
    IN  IF W = 0 \/ bottom = 0 THEN NaN ELSE Val(<<N * top, W * bottom>>)

\* lines 177-179: -1./(N - 1.)
moran_expectation(N) == IF N = 1 THEN NaN ELSE Val(<<-1, N - 1>>)

InitMoran ==
    /\ m_pc = "start"
    /\ m_x = <<>>
    /\ m_labels = <<>>
    /\ m_weights = <<>>
    /\ m_I = NaN
    /\ m_expectation = NaN

\* gmm.py line 133: the weights of the labels of the fitted mixture
MixtureWeights(xs, labels) ==
    /\ m_pc = "start"
    /\ m_x' = xs
    /\ m_labels' = labels
    /\ m_weights' = get_mixture_weights(labels, Len(xs))
    /\ m_pc' = "weights"
    /\ UNCHANGED <<m_I, m_expectation>>

\* gmm.py line 134: moran_mixture builds the weights again and computes I
MoranMixture ==
    /\ m_pc = "weights"
    /\ m_I' = MoranI(m_x, get_mixture_weights(m_labels, Len(m_x)), Len(m_x))
    /\ m_pc' = "statistic"
    /\ UNCHANGED <<m_x, m_labels, m_weights, m_expectation>>

\* gmm.py line 135
MoranExpectation ==
    /\ m_pc = "statistic"
    /\ m_expectation' = moran_expectation(Len(m_x))
    /\ m_pc' = "done"
    /\ UNCHANGED <<m_x, m_labels, m_weights, m_I>>

----------------------------------------------------------------------------
(* The specifications: one per operation, the others at rest *)

Init == InitLoad /\ InitWeights /\ InitPrice /\ InitGMM /\ InitArea /\ InitMoran

NextLoad ==
    \/ \E a \in DateArgs, info \in BlockInfoChoices, locs \in LocationChoices :
          Start(a, info, locs) /\ UNCHANGED notLoad
    \/ \E k \in Keys, t \in Templates : NextFile(k, t) /\ UNCHANGED notLoad
    \/ NextPath /\ UNCHANGED notLoad
    \/ ApplyRule /\ UNCHANGED notLoad
    \/ Aggregate /\ UNCHANGED notLoad
    \/ Finish /\ UNCHANGED notLoad

SpecLoad == Init /\ [][NextLoad]_vars

NextWeights ==
    \/ \E N \in 2..MaxPoints : \E gps \in [1..N -> Coords], k \in 1..(N - 1) :
          WeightsStart(gps, k) /\ UNCHANGED notWeights
    \/ WeightsRow /\ UNCHANGED notWeights
    \/ WeightsReturn /\ UNCHANGED notWeights

SpecWeights == Init /\ [][NextWeights]_vars

NextPrice ==
    \/ \E name \in {"A", "B"}, table \in PriceTables :
          PriceStart(name, table) /\ UNCHANGED notPrice
    \/ PriceNextKey /\ UNCHANGED notPrice
    \/ PricePair /\ UNCHANGED notPrice
    \/ PriceKeyDone /\ UNCHANGED notPrice
    \/ PriceReturn /\ UNCHANGED notPrice

SpecPrice == Init /\ [][NextPrice]_vars

NextGMM ==
    \/ \E park \in ParkTables, gps \in GpsChoices, k \in 1..3 :
          Analyse(park, gps, k) /\ UNCHANGED notGMM
    \/ \E i \in 1..Len(tasks) : WorkerTake(i) /\ UNCHANGED notGMM
    \/ \E i \in 1..Len(tasks) : WorkerFinish(i) /\ UNCHANGED notGMM
    \/ MapReturn /\ UNCHANGED notGMM
    \/ MapRaise /\ UNCHANGED notGMM
    \/ CloseJoinReturn /\ UNCHANGED notGMM

SpecGMM == Init /\ [][NextGMM]_vars

NextArea ==
    \/ \E index \in ActiveLists : AreaStart(index, AreaInfo) /\ UNCHANGED notArea
    \/ AreaKey /\ UNCHANGED notArea
    \/ AreaReturn /\ UNCHANGED notArea

SpecArea == Init /\ [][NextArea]_vars

NextMoran ==
    \/ \E N \in 2..MaxSamples : \E xs \in [1..N -> SampleLoads], labels \in [1..N -> {0, 1}] :
          MixtureWeights(xs, labels) /\ UNCHANGED notMoran
    \/ MoranMixture /\ UNCHANGED notMoran
    \/ MoranExpectation /\ UNCHANGED notMoran

SpecMoran == Init /\ [][NextMoran]_vars

----------------------------------------------------------------------------
(* Properties of load_data *)

\* the input rows of the file being processed that the cleaning keeps: load
\* present, date in the range, not a Sunday, not a holiday
Survivors ==
    {i \in 1..Len(csv_rows) :
        /\ ~IsNull(csv_rows[i].Load)
        /\ date_start <= csv_rows[i].Datetime[1]
        /\ csv_rows[i].Datetime[1] <= date_end
        /\ Weekday(csv_rows[i].Datetime[1]) # 6
        /\ csv_rows[i].Datetime[1] \notin Holidays}

\* the peak-hour windows a rule defines, as <<start, end>> seconds of the day
WindowsOf(row) ==
    {w \in {<<row.PeakHourStart1, row.PeakHourEnd1>>,
            <<row.PeakHourStart2, row.PeakHourEnd2>>,
            <<row.PeakHourStart3, row.PeakHourEnd3>>} : ~IsNull(w[1])}

\* the observation r is on a non-Saturday, inside the rule's effective window
\* and inside one of the rule's peak-hour windows
RuleCovers(row, r) ==
    /\ Weekday(r.Datetime[1]) # 5
    /\ DtLE(row.EffectiveStartDate[1], r.Datetime)
    /\ IsNull(row.EffectiveEndDate) \/ r.Datetime[1] <= row.EffectiveEndDate[1][1]
    /\ \E w \in WindowsOf(row) : w[1][1] <= r.Datetime[2] /\ r.Datetime[2] < w[2][1]

RulesOfKey == SelectSeq(block_info, LAMBDA row : row.ElementKey = key)

Cells(bd) == {<<bd[i].Day, bd[i].Hour>> : i \in 1..Len(bd)}

\* the block just processed passed the four checks
Kept ==
    /\ pc = "loop" /\ n_files > 0
    /\ Len(block_data) > 0
    /\ \E i \in 1..Len(block_data) : block_data[i].Load # Val(0)
    /\ key \in locations
    /\ Cardinality(Cells(block_data)) = 72

\* the table holds the rows of every block of park_data, load included
TableHoldsParkData ==
    /\ \A k \in DOMAIN park_data : \A j \in 1..Len(park_data[k]) :
          \E row \in curated : /\ row.ID = k
                               /\ row.Datetime = park_data[k][j].Datetime
                               /\ row.Load = park_data[k][j].Load
    /\ \A row \in curated :
          /\ row.ID \in DOMAIN park_data
          /\ \E j \in 1..Len(park_data[row.ID]) :
                row.Datetime = park_data[row.ID][j].Datetime

\* C3: every observation on a non-Saturday, inside a rule's effective window
\* and inside any of the rule's defined peak-hour windows is blanked once the
\* rule has been processed, for rules with one, two or three windows.
C3_PeakRowsBlanked ==
    pc = "rules" =>
        \A j \in 1..(rule_no - 1) : \A i \in 1..Len(block_data) :
            RuleCovers(RulesOfKey[j], block_data[i]) => IsNull(block_data[i].Load)

\* C4 as stated: every row of the curated table has a load value present.
C4_NoBlankRows ==
    pc = "done" => \A row \in curated : ~IsNull(row.Load)

\* C4 amended: blanking never removes a row.  The cleaned rows of a block are
\* the surviving input rows, a row without load is one that a rule of the
\* block covers, and the rows of a retained block, blanked ones included, are
\* in the curated table.
C4_BlankRowsStay ==
    /\ (pc \in {"rules", "loop"} /\ n_files > 0) =>
          /\ Len(block_data) = Cardinality(Survivors)
          /\ \A j \in 1..Len(block_data) :
                IsNull(block_data[j].Load) =>
                    \E n \in 1..Len(RulesOfKey) : RuleCovers(RulesOfKey[n], block_data[j])
    /\ Kept => (key \in DOMAIN park_data /\ park_data[key] = block_data)
    /\ pc = "done" => TableHoldsParkData

C4_Witness ==
    pc = "done" /\ \E row \in curated : IsNull(row.Load)

\* C6: between two files element_keys, the average loads and the midpoints
\* have the same length, row i belongs to element_keys[i], every average-load
\* row has 72 columns, and a block skipped for one of the four reasons adds
\* nothing to the outputs.
C6_RowsAligned ==
    pc \in {"loop", "done", "error"} =>
        /\ Len(avg_loads) = Len(element_keys)
        /\ Len(gps_loc) = Len(element_keys)
        /\ \A i \in 1..Len(element_keys) :
              /\ Len(avg_loads[i]) = 72
              /\ element_keys[i] \in DOMAIN park_data
              /\ LET rec == LocationRecord(element_keys[i])
                 IN  gps_loc[i] = <<(rec[2] + rec[4]) \div 2, (rec[1] + rec[3]) \div 2>>
        /\ \A row \in curated : \E i \in 1..Len(element_keys) : element_keys[i] = row.ID

C6_SkipAddsNothing ==
    /\ (/\ n_files' = n_files + 1
        /\ \/ Len(block_data') = 0
           \/ \A i \in 1..Len(block_data') : block_data'[i].Load = Val(0)
           \/ key' \notin locations)
       => UNCHANGED <<element_keys, avg_loads, gps_loc, park_data, curated>>
    /\ (pc = "rules" /\ pc' = "loop" /\ Cardinality(Cells(block_data)) # 72)
       => /\ UNCHANGED <<element_keys, avg_loads, park_data, curated>>
          /\ gps_loc' = SubSeq(gps_loc, 1, Len(element_keys))

C6_SkippedBlocks == [](C6_RowsAligned) /\ [][C6_SkipAddsNothing]_vars

\* a retained block after a skipped one
C6_Witness ==
    /\ pc = "loop" /\ n_files = 2 /\ Len(element_keys) = 1
    /\ element_keys[1] = key
    /\ Len(gps_loc) = 1

\* C9: an input value v that survives the filters and is not blanked is
\* stored as min(v, 1.5): the cleaned row of every surviving observation
\* holds min(v, 15) tenths unless blanked, and the curated table holds the
\* rows of the retained blocks with these loads.
C9_Clipped ==
    /\ (pc \in {"rules", "loop"} /\ n_files > 0) =>
          \A i \in Survivors : \E j \in 1..Len(block_data) :
              /\ block_data[j].Datetime = csv_rows[i].Datetime
              /\ IF IsNull(block_data[j].Load)
                 THEN \E n \in 1..Len(RulesOfKey) : RuleCovers(RulesOfKey[n], block_data[j])
                 ELSE block_data[j].Load = Val(Min(csv_rows[i].Load[1], 15))
    /\ Kept => (key \in DOMAIN park_data /\ park_data[key] = block_data)
    /\ pc = "done" =>
          \A k \in DOMAIN park_data : \A j \in 1..Len(park_data[k]) :
              \E row \in curated : /\ row.ID = k
                                   /\ row.Datetime = park_data[k][j].Datetime
                                   /\ row.Load = park_data[k][j].Load

\* a value above 1.5 of the last retained block is in the table as 1.5
C9_Witness ==
    /\ pc = "done" /\ key \in DOMAIN park_data
    /\ \E row \in curated : \E i \in 1..Len(csv_rows) :
          /\ row.ID = key
          /\ row.Datetime = csv_rows[i].Datetime
          /\ csv_rows[i].Load = Val(18)
          /\ row.Load = Val(15)

\* the first and last date the arguments ask for
FirstDay(a) ==
    Ordinal(a.month_year_start[2], a.month_year_start[1],
            IF IsNull(a.day_start) THEN 1 ELSE a.day_start[1])

LastDay(a) ==
    LET y == a.month_year_end[2]
        m == a.month_year_end[1]
    IN  IF ~IsNull(a.day_end) THEN Ordinal(y, m, a.day_end[1])
        ELSE IF m = 12 THEN Ordinal(y + 1, 1, 1) - 1 ELSE Ordinal(y, m + 1, 1) - 1

\* C10: every row of the curated table has a date between the first and the
\* last date asked for, both included, that is not a Sunday and not a holiday.
C10_RowsInRange ==
    pc = "done" =>
        \A row \in curated :
            /\ FirstDay(args) <= row.Datetime[1]
            /\ row.Datetime[1] <= LastDay(args)
            /\ Weekday(row.Datetime[1]) # 6
            /\ row.Day # 6
            /\ row.Datetime[1] \notin Holidays

\* rows on the first and on the last day of an explicit range are kept
C10_Witness ==
    /\ pc = "done" /\ ~IsNull(args.day_end)
    /\ \E row \in curated : row.Datetime[1] = FirstDay(args)
    /\ \E row \in curated : row.Datetime[1] = LastDay(args)

----------------------------------------------------------------------------
(* Properties of get_neighbor_weights *)

\* C5: for N > k the matrix is N x N with entries 0 and 1, every row has
\* exactly k entries equal to 1 and all of them off the diagonal, also when
\* two block-faces have the same coordinates.
C5_KNeighborsOffDiagonal ==
    w_pc = "done" =>
        /\ Len(weights) = Len(w_gps)
        /\ \A i \in 1..Len(w_gps) :
              /\ Len(weights[i]) = Len(w_gps)
              /\ \A j \in 1..Len(w_gps) : weights[i][j] \in {0, 1}
              /\ Cardinality({j \in 1..Len(w_gps) : weights[i][j] = 1}) = w_k
              /\ weights[i][i] = 0

----------------------------------------------------------------------------
(* Properties of get_price_changes *)

\* the rows of the area with the key k whose WeekdayRate1 is present
RatedRows(k) ==
    SelectSeq(area, LAMBDA row : row.ElementKey = k /\ ~IsNull(row.WeekdayRate1))

\* the six rate tiers of two rows differ
TiersDiffer(a, b) == Prices(a) # Prices(b)

\* predecessor rates minus successor rates, element by element
Delta(a, b) ==
    AsList([n \in 1..6 |->
        IF IsNull(Prices(a)[n]) \/ IsNull(Prices(b)[n]) THEN NaN
        ELSE Val(Prices(a)[n][1] - Prices(b)[n][1])])

\* the entries of price_changes, as (dict key, position in its list)
PriceEntries == {e \in (DOMAIN price_changes) \X (1..MaxPriceRows) :
                    e[2] <= Len(price_changes[e[1]])}

\* while the pairs of a key are compared, block holds the rows of the key with
\* WeekdayRate1, each once, in ascending order of EffectiveStartDate
C8_BlockSorted ==
    p_pc = "pairs" =>
        /\ Len(block) = Len(RatedRows(p_key))
        /\ \A row \in {block[n] : n \in 1..Len(block)} \cup
                      {RatedRows(p_key)[n] : n \in 1..Len(block)} :
              Cardinality({n \in 1..Len(block) : block[n] = row}) =
              Cardinality({n \in 1..Len(block) : RatedRows(p_key)[n] = row})
        /\ \A n \in 1..(Len(block) - 1) :
              block[n].EffectiveStartDate <= block[n + 1].EffectiveStartDate
        /\ p_i \in 1..Len(block) \cup {1}

\* a step that compares the rows i and i+1 of the block adds, when their rate
\* tiers differ, exactly one entry: (key, predecessor minus successor) at the
\* end of the list under (successor's start, predecessor's start); everything
\* already in price_changes stays
C8_PairRecorded ==
    (p_pc = "pairs" /\ p_i' = p_i + 1 /\ TiersDiffer(block[p_i], block[p_i + 1])) =>
        LET prev == block[p_i]
            next == block[p_i + 1]
            dk   == <<next.EffectiveStartDate, prev.EffectiveStartDate>>
            old  == IF dk \in DOMAIN price_changes THEN price_changes[dk] ELSE <<>>
        IN  /\ DOMAIN price_changes' = (DOMAIN price_changes) \cup {dk}
            /\ price_changes'[dk] = Append(old, <<p_key, Delta(prev, next)>>)
            /\ \A x \in DOMAIN price_changes : x # dk => price_changes'[x] = price_changes[x]

\* the comparisons of a key go through the pairs (1,2), (2,3), ... in order,
\* and no other step touches price_changes
C8_OnlySuccessors ==
    /\ (p_pc = "pairs" /\ p_pc' = "pairs") => (p_i' = p_i + 1 /\ p_i + 1 <= Len(block))
    /\ (p_pc' = "pairs" /\ p_pc # "pairs") => p_i' = 1
    /\ (price_changes' # price_changes) => (p_pc = "pairs" /\ p_i' = p_i + 1)

\* a key with two rated rows whose WeekdayRate1 differ has exactly one entry
\* once the call returned: under (later start, earlier start), with the
\* earlier row's rates minus the later row's
C8_TwoRows ==
    p_pc = "done" =>
        \A k \in Keys :
            LET rows == RatedRows(k)
            IN  (Len(rows) = 2 /\ rows[1].WeekdayRate1 # rows[2].WeekdayRate1) =>
                    /\ Cardinality({e \in PriceEntries : price_changes[e[1]][e[2]][1] = k}) = 1
                    /\ \E a, b \in 1..2 :
                          /\ a # b
                          /\ rows[a].EffectiveStartDate <= rows[b].EffectiveStartDate
                          /\ \E e \in PriceEntries :
                                /\ e[1] = <<rows[b].EffectiveStartDate, rows[a].EffectiveStartDate>>
                                /\ price_changes[e[1]][e[2]] = <<k, Delta(rows[a], rows[b])>>

----------------------------------------------------------------------------
(* Properties of locational_demand_analysis and GMM *)

\* the timestamps of the rows of slot i
SlotDates(i) == {r.Datetime : r \in DataDf(g_park, times[i][1], times[i][2])}

\* the evaluation of slot i ended, with a value or with an error
Finished(i) == tasks[i].status \in {"done", "failed"}

\* on every date of slot i at least n_components block-faces have a load
EnoughSamples(i) ==
    \A d \in SlotDates(i) :
        Cardinality(ActiveIndex(DataDf(g_park, times[i][1], times[i][2]), d)) >= n_components

\* every (training date, test date) pair of slot i has a comparable block-face
Comparable(i) ==
    \A d, e \in SlotDates(i) :
        d # e => TestIndex(DataDf(g_park, times[i][1], times[i][2]), d, e) # {}

\* C1: locational_demand_analysis returns a list with one entry per element
\* of (sorted distinct weekdays) x (sorted distinct hours), the entry at
\* position i being the result for times[i] whatever the order in which the
\* workers finish, and it returns only after every dispatched slot finished
C1_ResultsInSlotOrder ==
    g_pc \in {"returned", "raised"} =>
        /\ g_pc = "returned"
        /\ times = Product(SortedInts({r.Day : r \in g_park}), SortedInts({r.Hour : r \in g_park}))
        /\ Len(results) = Len(times)
        /\ \A i \in 1..Len(times) :
              /\ results[i][1] = times[i][1]
              /\ results[i][2] = times[i][2]
              /\ Finished(i)

\* C2: for every training date of a slot GMM produces one tuple in each of the
\* three Moran lists, the neighbor one computed with the k-nearest-neighbor
\* weights and the caller's k: every call GMM makes into moran_auto exists
\* there with the arguments it requires, so that a slot with valid data
\* returns its 7-field result
C2_ValidSlotReturns ==
    \A i \in 1..Len(tasks) :
        (Finished(i) /\ SlotDates(i) # {} /\ EnoughSamples(i) /\ Comparable(i)) =>
            /\ tasks[i].status = "done"
            /\ Len(tasks[i].value) = 7
            /\ \A l \in 4..6 : Len(tasks[i].value[l]) = Cardinality(SlotDates(i))
            /\ \A n \in 1..Len(tasks[i].value[6]) : tasks[i].value[6][n].k = g_k

\* C7: for a slot with at least two dates whose (train, test) pairs all have a
\* comparable block-face, every accuracy is correct/(correct + incorrect)
\* over the test rows, every average accuracy lies in [0, 1] and the reported
\* error 100 - 100 * mean(accuracy) lies in [0, 100]
C7_ErrorInRange ==
    \A i \in 1..Len(tasks) :
        (Finished(i) /\ Cardinality(SlotDates(i)) >= 2 /\ Comparable(i)) =>
            /\ tasks[i].status = "done"
            /\ ~IsNull(tasks[i].value[3])
            /\ tasks[i].value[3][1] \in 0..10000

----------------------------------------------------------------------------
(* Properties of get_area_weights *)

\* every active key is listed in the area table
AllListed == \A n \in 1..Len(train_active_index) : train_active_index[n] \in AllKeys(area_info)

\* C11: for active keys that are all in the area table, the matrix returned
\* by get_area_weights is symmetric, has a zero diagonal, and has a 1 at
\* (i, j), i # j, exactly when the blocks i and j have the same
\* (paid area, sub-area) pair
C11_AreaWeights ==
    (a_pc = "done" /\ AllListed) =>
        LET N == Len(train_active_index)
        IN  /\ Len(a_weights) = N
            /\ \A i, j \in 1..N :
                  /\ a_weights[i][j] = a_weights[j][i]
                  /\ a_weights[i][j] \in {0, 1}
                  /\ (i = j) => a_weights[i][j] = 0
                  /\ (i # j) =>
                        (a_weights[i][j] = 1 <=>
                            AreaOf(area_info, train_active_index[i]) =
                            AreaOf(area_info, train_active_index[j]))

\* a matrix was returned for three listed keys, two of them of one area and
\* the third of another
C11_Witness ==
    /\ a_pc = "done"
    /\ AllListed
    /\ Len(train_active_index) = 3
    /\ a_weights[1][2] = 1
    /\ a_weights[1][3] = 0

\* C13: a key of the active list that is not in the area table, at any
\* position of the list, does not make get_area_weights fail: an N x N matrix
\* is returned in which the block of that key is connected to no block whose
\* key is listed
C13_MissingKeyIsolated ==
    /\ a_pc # "UnboundLocalError"
    /\ (a_pc = "done") =>
          /\ Len(a_weights) = Len(train_active_index)
          /\ \A i, j \in 1..Len(train_active_index) :
                (train_active_index[i] \notin AllKeys(area_info)
                 /\ train_active_index[j] \in AllKeys(area_info)) =>
                    (a_weights[i][j] = 0 /\ a_weights[j][i] = 0)

----------------------------------------------------------------------------
(* Properties of moran_mixture and moran_expectation *)

\* two fractions with positive or negative denominators are the same number
SameNumber(a, b) == a[1] * b[2] = b[1] * a[2]

\* every point is connected to every other point
FullyConnected ==
    \A i, j \in 1..Len(m_x) : i # j => m_weights[i][j] = 1

NonConstant == \E i, j \in 1..Len(m_x) : m_x[i] # m_x[j]

\* C12: I = (N/W) * (sum of w[i,j]*z[i]*z[j]) / (sum of z[i]^2) with
\* z = x - mean(x) and W the sum of the weights, moran_expectation(N) is
\* -1/(N-1); so for fully connected weights and non-constant loads I is
\* -1/(N-1), and for N = 4 with loads [1,2,3,4] I and the expectation are -1/3
C12_MoranI ==
    (m_pc = "done") =>
        LET N == Len(m_x)
            total == SumOver(m_x, 1..N)
            W == SumOver([i \in 1..N |-> SumOver(m_weights[i], 1..N)], 1..N)
            cross(i) == SumOver([j \in 1..N |->
                            m_weights[i][j] * (N * m_x[i] - total) * (N * m_x[j] - total)], 1..N)
            top == SumOver([i \in 1..N |-> cross(i)], 1..N)
            bottom == SumOver([i \in 1..N |-> (N * m_x[i] - total) * (N * m_x[i] - total)], 1..N)
        IN  /\ m_expectation = Val(<<-1, N - 1>>)
            /\ (W # 0 /\ bottom # 0) =>
                  /\ ~IsNull(m_I)
                  /\ m_I[1][1] * W * bottom = N * top * m_I[1][2]
                  /\ m_I[1][2] # 0
            /\ (FullyConnected /\ NonConstant) =>
                  /\ ~IsNull(m_I)
                  /\ SameNumber(m_I[1], <<-1, N - 1>>)
                  /\ SameNumber(m_I[1], m_expectation[1])
            /\ (FullyConnected /\ m_x = <<1, 2, 3, 4>>) =>
                  /\ SameNumber(m_I[1], <<-1, 3>>)
                  /\ SameNumber(m_expectation[1], <<-1, 3>>)

\* the statistic was computed for the loads [1,2,3,4] with all four points
\* in one component
C12_Witness ==
    /\ m_pc = "done"
    /\ m_x = <<1, 2, 3, 4>>
    /\ FullyConnected
    /\ ~IsNull(m_I)

----------------------------------------------------------------------------
(* Properties of GMM on the output of load_data *)

\* the (weekday, hour) slots of the table load_data returned
CuratedSlots == {<<r.Day, r.Hour>> : r \in curated}

\* C14: for every training and test row GMM places in the feature columns
\* 1-2 the coordinates of the row's own block-face: the position of a key in
\* the sorted keys of the slot is the row of that block in the coordinate
\* matrix of load_data (row order = element_keys), for any retained blocks
\* and any one or more load directories
C14_OwnCoordinates ==
    (pc = "done") =>
        \A slot \in CuratedSlots :
            LET data_df == DataDf(curated, slot[1], slot[2])
            IN  \A time \in {r.Datetime : r \in data_df} :
                    \A b \in ActiveIndex(data_df, time) :
                        /\ element_keys[Mask(data_df, time)[b]] = b
                        /\ FeatureCoords(data_df, gps_loc, time)[b] = Midpoint(b)

----------------------------------------------------------------------------
(* Properties of the slot index maps of load_data *)

\* the positions of element_keys whose key was retained once
RetainedOnce ==
    {b \in 1..Len(element_keys) :
        \A c \in 1..Len(element_keys) : element_keys[c] = element_keys[b] => c = b}

\* C15: the slot index maps returned by load_data are mutual inverses of the
\* same size, and for every retained block column c of its average-load row
\* is the mean load of that block over the (weekday, hour) pair
\* idx_to_day_hour[c], not only for the block the maps were derived from
C15_SlotMaps ==
    (pc = "done") =>
        /\ Cardinality(DOMAIN idx_to_day_hour) = Cardinality(DOMAIN day_hour_to_idx)
        /\ \A c \in DOMAIN idx_to_day_hour : day_hour_to_idx[idx_to_day_hour[c]] = c
        /\ \A b \in RetainedOnce :
              \A c \in 0..(Len(avg_loads[b]) - 1) :
                  /\ c \in DOMAIN idx_to_day_hour
                  /\ avg_loads[b][c + 1] =
                        GroupMean(park_data[element_keys[b]], idx_to_day_hour[c])

----------------------------------------------------------------------------
(* Properties of get_price_changes: entries for real changes only *)

\* a step adds a price-change entry only for a pair of rows whose six rate
\* tiers differ, a tier missing in both rows counting as the same, and a
\* time-change entry only for a pair whose time vectors differ
C16_RealChange ==
    /\ (price_changes' # price_changes) =>
          (p_pc = "pairs" /\ p_i < Len(block) /\ TiersDiffer(block[p_i], block[p_i + 1]))
    /\ (time_changes' # time_changes) =>
          (p_pc = "pairs" /\ p_i < Len(block) /\ Times(block[p_i]) # Times(block[p_i + 1]))

\* C16: get_price_changes records a price-change entry for two consecutive
\* rows of a block only if their rate tiers differ: rows with the same six
\* values, also when the same optional tier is missing in both, produce no
\* price-change entry, and identical time vectors produce no time-change entry
C16_OnlyRealChanges == [][C16_RealChange]_vars

====
